---- MODULE Spec2Model ----
(***************************************************************************)
(* A model of GitLabClient (gitlab_api.py): the curl transport             *)
(* _make_request with its retry loop and decoding, and the search          *)
(* operations built on it (search_files, grep_repository_content,          *)
(* search_commits_enhanced).                                               *)
(*                                                                         *)
(* Text is modelled as a sequence of characters, each a one-character      *)
(* string; response bodies as sequences of byte values.                    *)
(***************************************************************************)
EXTENDS Integers, Sequences, FiniteSets, TLC

VARIABLES
    pc,         \* position inside _make_request: idle, loop, sleep, returned, raised
    req,        \* the arguments of the running _make_request call
    attempt,    \* the loop variable of `for attempt in range(1, retries + 1)`
    log,        \* per finished attempt: what its execution of curl gave
    runs,       \* number of subprocess.run executions of the call so far
    sleeps,     \* number of asyncio.sleep(2) waits of the call so far
    result,     \* the value returned by the call
    raised,     \* the exception the call ended with
    call,       \* the arguments of the running search operation
    tree,       \* the host's recursive tree listing for the ref
    files,      \* the host's files: path -> content
    spc,        \* position inside the search operation
    calls,      \* the host calls the search operation has issued, in order
    served,     \* what the host answered to each file fetch, in order
    files_to_search,  \* grep: the candidate files (local of the same name)
    pos,        \* grep: index of the candidate being fetched; commit search:
                \* the number of commits the loop has taken
    matches,    \* grep: the matches accumulated so far (local of the same name)
    sresult,    \* the value the search operation returned
    serror,     \* the exception the search operation ended with
    commits,    \* the host's commit list for the project, newest first
    prev,       \* what an earlier run of the search operation issued and gave
    last_run,   \* the outcomes of the executions of curl in the latest attempt
    tasks,      \* interleaved search invocations: arguments, position, locals
    lists,      \* the list objects that `matches` names, one per list
    client      \* the fields of the GitLabClient: token, base_url, project_id

tvars == <<pc, req, attempt, log, runs, sleeps, result, raised, last_run>>

svars == <<call, tree, files, spc, calls, served, files_to_search, pos, matches,
           sresult, serror, commits, prev>>

cvars == <<tasks, lists, client>>

vars == <<tvars, svars, cvars>>

----------------------------------------------------------------------------
(* Bounds of the model *)

MaxRetries == 3

\* Longest tree listing the host returns.
MaxTree == 3

----------------------------------------------------------------------------
(* Generic helpers on sequences *)

SeqsUpTo(S, n) == UNION {[1..k -> S] : k \in 0..n}

\* The tree listings of up to n entries: the host lists a path once.
Trees(entries, n) ==
    { t \in SeqsUpTo(entries, n) :
        \A i \in 1..Len(t) : \A j \in 1..Len(t) :
            i # j => t[i].path # t[j].path }

----------------------------------------------------------------------------
(* The host, seen through one execution of curl *)

\* Bodies the curl process may print: empty; "1"; "[]"; "x"; 0xC3 0xA9 (valid
\* UTF-8, two bytes); 0xFF (invalid UTF-8, valid latin-1).
Bodies ==
    { <<>>, <<49>>, <<91, 93>>, <<120>>, <<195, 169>>, <<255>> }

\* What one subprocess.run can end with: the 30 s timeout, another error
\* raised by the execution (curl missing, OS error), or an exit status and
\* the bytes of stdout.
HostOutcomes ==
    { [kind |-> "timeout", rc |-> 0, out |-> <<>>],
      [kind |-> "oserror", rc |-> 0, out |-> <<>>] }
    \cup { [kind |-> "exit", rc |-> r, out |-> b] : r \in {0, 7}, b \in Bodies }

Endpoints == { "/repository/tree", "/repository/files/a.py" }

Methods == { "GET", "POST" }

----------------------------------------------------------------------------
(* Decoding: bytes.decode('utf-8'), bytes.decode('latin-1'), json.loads *)

RECURSIVE Utf8Valid(_)
Utf8Valid(b) ==
    IF b = <<>> THEN TRUE
    ELSE IF b[1] < 128 THEN Utf8Valid(Tail(b))
    ELSE IF b[1] >= 194 /\ b[1] <= 223 /\ Len(b) >= 2
            /\ b[2] >= 128 /\ b[2] <= 191
         THEN Utf8Valid(Tail(Tail(b)))
    ELSE FALSE

RECURSIVE Utf8Decode(_)
Utf8Decode(b) ==
    IF b = <<>> THEN <<>>
    ELSE IF b[1] < 128 THEN <<b[1]>> \o Utf8Decode(Tail(b))
    ELSE <<(b[1] - 192) * 64 + (b[2] - 128)>> \o Utf8Decode(Tail(Tail(b)))

\* latin-1 maps every byte to the code point of the same number.
Latin1Decode(b) == [i \in 1..Len(b) |-> b[i]]

IsDigit(c) == c >= 48 /\ c <= 57

\* json.loads on the texts the bodies decode to: a decimal integer or "[]"
\* parses, anything else raises JSONDecodeError.
JsonValid(t) ==
    \/ t = <<91, 93>>
    \/ /\ Len(t) >= 1
       /\ \A i \in 1..Len(t) : IsDigit(t[i])
       /\ (Len(t) > 1 => t[1] # 48)

JsonLoads(t) ==
    IF t = <<91, 93>> THEN [tag |-> "list", v |-> <<>>]
    ELSE [tag |-> "num", v |-> [i \in 1..Len(t) |-> t[i] - 48]]

NoResult == [tag |-> "none", v |-> <<>>]
NoError == [kind |-> "none", endpoint |-> "", attempts |-> 0]

----------------------------------------------------------------------------
(* One attempt of _make_request, lines 56..116 *)

\* The first run is in text mode (encoding='utf-8'): it raises TimeoutExpired,
\* another exception, or UnicodeDecodeError when stdout is not UTF-8, and
\* otherwise gives the exit status and the decoded text.
FirstRun(o) ==
    IF o.kind = "timeout" THEN [kind |-> "timeout", rc |-> 0, text |-> <<>>]
    ELSE IF o.kind = "oserror" THEN [kind |-> "error", rc |-> 0, text |-> <<>>]
    ELSE IF ~Utf8Valid(o.out) THEN [kind |-> "undecodable", rc |-> 0, text |-> <<>>]
    ELSE [kind |-> "done", rc |-> o.rc, text |-> Utf8Decode(o.out)]

\* The second run, in binary mode, decoded by hand (lines 80..96): UTF-8, then
\* latin-1. With a non-zero status or no output the bytes are left as they
\* are, and line 98 then sees a failed attempt.
SecondRunMut(o) ==
    IF o.kind = "timeout" THEN [kind |-> "timeout", rc |-> 0, text |-> <<>>]
    ELSE IF o.kind = "oserror" THEN [kind |-> "error", rc |-> 0, text |-> <<>>]
    ELSE IF o.rc = 0 /\ o.out # <<>>
         THEN IF Utf8Valid(o.out)
              THEN [kind |-> "done", rc |-> 0, text |-> Utf8Decode(o.out)]
              ELSE [kind |-> "error", rc |-> 0, text |-> <<>>]
    ELSE [kind |-> "done", rc |-> o.rc, text |-> <<>>]
SecondRun(o) ==
    IF o.kind = "timeout" THEN [kind |-> "timeout", rc |-> 0, text |-> <<>>]
    ELSE IF o.kind = "oserror" THEN [kind |-> "error", rc |-> 0, text |-> <<>>]
    ELSE IF o.rc = 0 /\ o.out # <<>>
         THEN [kind |-> "done", rc |-> 0,
               text |-> IF Utf8Valid(o.out) THEN Utf8Decode(o.out)
                        ELSE Latin1Decode(o.out)]
    ELSE [kind |-> "done", rc |-> o.rc, text |-> <<>>]

\* The subprocess result of an attempt whose executions ended with o1 and,
\* when the first raised UnicodeDecodeError, o2.
RunResult(o1, o2) ==
    IF FirstRun(o1).kind = "undecodable" THEN SecondRun(o2) ELSE FirstRun(o1)

RunsOf(o1) == IF FirstRun(o1).kind = "undecodable" THEN 2 ELSE 1

\* No execution.
NoRun == [kind |-> "none", rc |-> 0, out |-> <<>>]

\* What the second execution (line 80) can end with: it happens only after
\* a UnicodeDecodeError of the first.
SecondOutcomes(o1) == IF RunsOf(o1) = 2 THEN HostOutcomes ELSE {NoRun}

\* What the executions of an attempt ended with.
RunsRecord(o1, o2) == [first |-> o1, second |-> o2]

\* Line 98: `if result.returncode == 0 and result.stdout`.
AttemptSucceeded(r) == r.kind = "done" /\ r.rc = 0 /\ r.text # <<>>

\* Lines 99..103: the parsed JSON, or the text as it is.
SuccessValueMut(r) ==
    IF JsonValid(r.text) THEN JsonLoads(r.text)
    ELSE [tag |-> "text", v |-> <<>>]
SuccessValue(r) ==
    IF JsonValid(r.text) THEN JsonLoads(r.text)
    ELSE [tag |-> "text", v |-> r.text]

----------------------------------------------------------------------------
(* _make_request as a state machine *)

\* Lines 21..26: the fields __init__ sets from the configuration file.
ClientConfig ==
    [token |-> "glpat-x", base_url |-> "https://gitlab.swpd", project_id |-> "1"]

\* The client as constructed; no invocation is interleaved with another.
InitClient ==
    /\ client = ClientConfig
    /\ tasks = <<>>
    /\ lists = <<>>

InitTransport ==
    /\ pc = "idle"
    /\ req = [endpoint |-> "", method |-> "GET", retries |-> 0]
    /\ attempt = 0
    /\ log = <<>>
    /\ runs = 0
    /\ sleeps = 0
    /\ result = NoResult
    /\ raised = NoError
    /\ last_run = [first |-> NoRun, second |-> NoRun]

\* Line 48..55: the call is made and the loop is entered.
Call(e, m, r) ==
    /\ pc = "idle"
    /\ req' = [endpoint |-> e, method |-> m, retries |-> r]
    /\ attempt' = 1
    /\ pc' = "loop"
    /\ UNCHANGED <<log, runs, sleeps, result, raised, last_run>>
    /\ UNCHANGED svars
    /\ UNCHANGED cvars

\* The loop bound of line 55.
LoopBoundMut == req.retries + 1
LoopBound == req.retries

\* Lines 56..103 on success: the attempt returns.
AttemptOkMut(o1, o2) ==
    /\ pc = "loop"
    /\ attempt <= req.retries
    /\ AttemptSucceeded(RunResult(o1, o2))
    /\ log' = Append(log, RunResult(o1, o2))
    /\ runs' = runs + RunsOf(o1)
    /\ last_run' = RunsRecord(o1, o2)
    /\ IF JsonValid(RunResult(o1, o2).text)
       THEN /\ result' = SuccessValue(RunResult(o1, o2))
            /\ pc' = "returned"
            /\ attempt' = attempt
       ELSE /\ result' = result
            /\ pc' = IF attempt < req.retries THEN "sleep" ELSE "loop"
            /\ attempt' = IF attempt < req.retries THEN attempt ELSE attempt + 1
    /\ UNCHANGED <<req, sleeps, raised>>
    /\ UNCHANGED svars
    /\ UNCHANGED cvars
AttemptOk(o1, o2) ==
    /\ pc = "loop"
    /\ attempt <= LoopBound
    /\ AttemptSucceeded(RunResult(o1, o2))
    /\ log' = Append(log, RunResult(o1, o2))
    /\ runs' = runs + RunsOf(o1)
    /\ last_run' = RunsRecord(o1, o2)
    /\ result' = SuccessValue(RunResult(o1, o2))
    /\ pc' = "returned"
    /\ UNCHANGED <<req, attempt, sleeps, raised>>
    /\ UNCHANGED svars
    /\ UNCHANGED cvars

\* Lines 105..116: the attempt failed; wait when another one follows.
AttemptFailMut(o1, o2) ==
    /\ pc = "loop"
    /\ attempt <= LoopBound
    /\ ~AttemptSucceeded(RunResult(o1, o2))
    /\ log' = Append(log, RunResult(o1, o2))
    /\ runs' = runs + RunsOf(o1)
    /\ last_run' = RunsRecord(o1, o2)
    /\ pc' = "sleep"
    /\ attempt' = attempt
    /\ UNCHANGED <<req, sleeps, result, raised>>
    /\ UNCHANGED svars
    /\ UNCHANGED cvars
AttemptFail(o1, o2) ==
    /\ pc = "loop"
    /\ attempt <= LoopBound
    /\ ~AttemptSucceeded(RunResult(o1, o2))
    /\ log' = Append(log, RunResult(o1, o2))
    /\ runs' = runs + RunsOf(o1)
    /\ last_run' = RunsRecord(o1, o2)
    /\ IF attempt < req.retries
       THEN /\ pc' = "sleep"
            /\ attempt' = attempt
       ELSE /\ pc' = "loop"
            /\ attempt' = attempt + 1
    /\ UNCHANGED <<req, sleeps, result, raised>>
    /\ UNCHANGED svars
    /\ UNCHANGED cvars

\* Lines 107, 112, 116: asyncio.sleep(2) ends and the loop goes on.
Sleep ==
    /\ pc = "sleep"
    /\ sleeps' = sleeps + 1
    /\ attempt' = attempt + 1
    /\ pc' = "loop"
    /\ UNCHANGED <<req, log, runs, result, raised, last_run>>
    /\ UNCHANGED svars
    /\ UNCHANGED cvars

\* Line 118: the loop is over without a return.
Exhausted ==
    /\ pc = "loop"
    /\ attempt > LoopBound
    /\ raised' = [kind |-> "exhausted", endpoint |-> req.endpoint,
                  attempts |-> req.retries]
    /\ pc' = "raised"
    /\ UNCHANGED <<req, attempt, log, runs, sleeps, result, last_run>>
    /\ UNCHANGED svars
    /\ UNCHANGED cvars

NextTransport ==
    \/ \E e \in Endpoints, m \in Methods, r \in 0..MaxRetries : Call(e, m, r)
    \/ \E o1 \in HostOutcomes : \E o2 \in SecondOutcomes(o1) : AttemptOk(o1, o2)
    \/ \E o1 \in HostOutcomes : \E o2 \in SecondOutcomes(o1) : AttemptFail(o1, o2)
    \/ Sleep
    \/ Exhausted

\* No search operation is running.
NoCall ==
    [op |-> "none", pattern |-> <<>>, max_results |-> 0, file_filter |-> <<>>,
     case_insensitive |-> FALSE, context_lines |-> 0, max_files |-> 0,
     grep |-> <<>>, author |-> <<>>, file_path |-> <<>>, since |-> "",
     until |-> "", limit |-> 0]

\* No earlier run of the search operation.
NoPrev == [file_path |-> <<>>, calls |-> <<>>, sresult |-> <<>>]

InitSearchIdle ==
    /\ call = NoCall
    /\ tree = <<>>
    /\ files = <<>>
    /\ spc = "idle"
    /\ calls = <<>>
    /\ served = <<>>
    /\ files_to_search = <<>>
    /\ pos = 0
    /\ matches = <<>>
    /\ sresult = <<>>
    /\ serror = NoError
    /\ commits = <<>>
    /\ prev = NoPrev

Init == InitTransport /\ InitSearchIdle /\ InitClient

Spec == Init /\ [][NextTransport]_vars

----------------------------------------------------------------------------
(* Text helpers: str.lower, str.endswith, str.split, str.strip *)

UpperCase ==
    <<"A", "B", "C", "D", "E", "F", "G", "H", "I", "J", "K", "L", "M",
      "N", "O", "P", "Q", "R", "S", "T", "U", "V", "W", "X", "Y", "Z">>

LowerCase ==
    <<"a", "b", "c", "d", "e", "f", "g", "h", "i", "j", "k", "l", "m",
      "n", "o", "p", "q", "r", "s", "t", "u", "v", "w", "x", "y", "z">>

LowerChar(c) ==
    IF \E i \in 1..Len(UpperCase) : UpperCase[i] = c
    THEN LowerCase[CHOOSE i \in 1..Len(UpperCase) : UpperCase[i] = c]
    ELSE c

Lower(s) == [i \in 1..Len(s) |-> LowerChar(s[i])]

EndsWith(s, suffix) ==
    /\ Len(s) >= Len(suffix)
    /\ SubSeq(s, Len(s) - Len(suffix) + 1, Len(s)) = suffix

\* s.split(sep) for a one-character separator: "" splits to [""].
RECURSIVE Split(_, _)
Split(s, sep) ==
    IF \A i \in 1..Len(s) : s[i] # sep THEN <<s>>
    ELSE LET i == CHOOSE j \in 1..Len(s) :
                      s[j] = sep /\ \A h \in 1..(j - 1) : s[h] # sep
         IN <<SubSeq(s, 1, i - 1)>> \o Split(SubSeq(s, i + 1, Len(s)), sep)

IsSpace(c) == c \in {" ", "\t", "\r", "\n"}

RECURSIVE Strip(_)
Strip(s) ==
    IF s = <<>> THEN s
    ELSE IF IsSpace(s[1]) THEN Strip(Tail(s))
    ELSE IF IsSpace(s[Len(s)]) THEN Strip(SubSeq(s, 1, Len(s) - 1))
    ELSE s

----------------------------------------------------------------------------
(* fnmatch.fnmatch(name, pat), as on POSIX (normcase is the identity): the  *)
(* pattern is turned into a regular expression in which `*` is `.*` and    *)
(* `?` is `.`, both with DOTALL, and must match the whole name. Patterns   *)
(* here hold no `[`.                                                       *)

RECURSIVE FnMatch(_, _)
FnMatch(name, pat) ==
    IF pat = <<>> THEN name = <<>>
    ELSE IF pat[1] = "*"
         THEN \/ FnMatch(name, Tail(pat))
              \/ name # <<>> /\ FnMatch(Tail(name), pat)
    ELSE IF pat[1] = "?"
         THEN name # <<>> /\ FnMatch(Tail(name), Tail(pat))
    ELSE name # <<>> /\ name[1] = pat[1] /\ FnMatch(Tail(name), Tail(pat))

----------------------------------------------------------------------------
(* Paths, tree entries and patterns of the model *)

a_py == <<"a", ".", "p", "y">>
dir_b_py == <<"d", "i", "r", "/", "b", ".", "p", "y">>
dir_c_txt == <<"d", "i", "r", "/", "c", ".", "t", "x", "t">>
dir == <<"d", "i", "r">>

Blob(p) == [type |-> "blob", path |-> p]
Dir(p) == [type |-> "tree", path |-> p]

\* The entries a tree listing for search_files is made of.
FilesEntries == { Blob(a_py), Blob(dir_b_py), Blob(dir_c_txt), Dir(dir) }

\* "**/*.py", "*.py", "*", "dir/*", "a.py"
FilesPatterns ==
    { <<"*", "*", "/", "*", ".", "p", "y">>,
      <<"*", ".", "p", "y">>,
      <<"*">>,
      <<"d", "i", "r", "/", "*">>,
      a_py }

\* max_results: none, one, two, the default.
FilesMaxResults == {0, 1, 2, 100}

----------------------------------------------------------------------------
(* search_files, lines 378..396 *)

\* Lines 387..394: the loop over the tree, with its break.
RECURSIVE MatchingFilesMut(_, _, _, _)
MatchingFilesMut(items, matching_files, pattern, max_results) ==
    IF items = <<>> THEN matching_files
    ELSE LET item == Head(items) IN
         IF item.type = "blob" /\ FnMatch(item.path, pattern)
         THEN LET appended == <<item>> \o matching_files IN
              IF Len(appended) >= max_results THEN appended
              ELSE MatchingFilesMut(Tail(items), appended, pattern, max_results)
         ELSE MatchingFilesMut(Tail(items), matching_files, pattern, max_results)

RECURSIVE MatchingFiles(_, _, _, _)
MatchingFiles(items, matching_files, pattern, max_results) ==
    IF items = <<>> THEN matching_files
    ELSE LET item == Head(items) IN
         IF item.type = "blob" /\ FnMatch(item.path, pattern)
         THEN LET appended == Append(matching_files, item) IN
              IF Len(appended) >= max_results THEN appended
              ELSE MatchingFiles(Tail(items), appended, pattern, max_results)
         ELSE MatchingFiles(Tail(items), matching_files, pattern, max_results)

\* The host call of get_repository_tree (lines 365..376) and of get_file
\* (lines 296..300): both go through _make_request with the default method
\* and the default three attempts. For the search operations such a call
\* ends as _make_request ends: it returns a value or raises after its last
\* attempt.
HostCall(method, data, what, path, query) ==
    [method |-> method, data |-> data, what |-> what, path |-> path,
     query |-> query]

\* _make_request(endpoint): the defaults of line 48 are method="GET" and
\* data=None.
TreeCallMut == HostCall("POST", "None", "tree", <<>>, <<>>)
TreeCall == HostCall("GET", "None", "tree", <<>>, <<>>)
FileCall(p) == HostCall("GET", "None", "file", p, <<>>)

\* The values a host call can return that are no list: a JSON object (the
\* host's error bodies are objects with a "message"), a text that is not
\* JSON, a number.
Shapes == {"dict", "text", "num"}

\* Lines 387..388 and 409..411: `for item in tree` and item.get(...) on a
\* value that is no list of dictionaries. The keys of a dictionary and the
\* characters of a text are strings, which have no get; a number is not
\* iterable.
TreeShapeError(shape) ==
    IF shape = "num" THEN "TypeError" ELSE "AttributeError"

InitFiles ==
    /\ InitTransport
    /\ InitClient
    /\ call \in { [NoCall EXCEPT !.op = "search_files", !.pattern = p,
                                 !.max_results = m] :
                    p \in FilesPatterns, m \in FilesMaxResults }
    /\ tree \in Trees(FilesEntries, MaxTree)
    /\ files = <<>>
    /\ spc = "idle"
    /\ calls = <<>>
    /\ served = <<>>
    /\ files_to_search = <<>>
    /\ pos = 0
    /\ matches = <<>>
    /\ sresult = <<>>
    /\ serror = NoError
    /\ commits = <<>>
    /\ prev = NoPrev

\* Line 384: the tree listing is asked for.
FilesStart ==
    /\ spc = "idle"
    /\ call.op = "search_files"
    /\ calls' = Append(calls, TreeCall)
    /\ spc' = "tree"
    /\ UNCHANGED <<call, tree, files, commits, prev, served, files_to_search,
                   pos, matches, sresult, serror>>
    /\ UNCHANGED tvars
    /\ UNCHANGED cvars

\* Lines 384..396: the listing arrives, is filtered and returned.
FilesTreeReturns ==
    /\ spc = "tree"
    /\ call.op = "search_files"
    /\ sresult' = MatchingFiles(tree, <<>>, call.pattern, call.max_results)
    /\ spc' = "done"
    /\ UNCHANGED <<call, tree, files, commits, prev, calls, served,
                   files_to_search, pos, matches, serror>>
    /\ UNCHANGED tvars
    /\ UNCHANGED cvars

\* Line 384: _make_request raised; search_files lets the exception through.
FilesTreeRaises ==
    /\ spc = "tree"
    /\ call.op = "search_files"
    /\ serror' = [kind |-> "exhausted", endpoint |-> "/repository/tree",
                  attempts |-> 3]
    /\ spc' = "failed"
    /\ UNCHANGED <<call, tree, files, commits, prev, calls, served,
                   files_to_search, pos, matches, sresult>>
    /\ UNCHANGED tvars
    /\ UNCHANGED cvars

\* Lines 384..389: the host answered the listing with a value that is no
\* list; the loop raises and nothing catches it.
FilesTreeMalformed(shape) ==
    /\ spc = "tree"
    /\ call.op = "search_files"
    /\ serror' = [kind |-> TreeShapeError(shape),
                  endpoint |-> "/repository/tree", attempts |-> 0]
    /\ spc' = "failed"
    /\ UNCHANGED <<call, tree, files, commits, prev, calls, served,
                   files_to_search, pos, matches, sresult>>
    /\ UNCHANGED tvars
    /\ UNCHANGED cvars

NextFiles ==
    \/ FilesStart
    \/ FilesTreeReturns
    \/ FilesTreeRaises
    \/ \E shape \in Shapes : FilesTreeMalformed(shape)

SpecFiles == InitFiles /\ [][NextFiles]_vars

----------------------------------------------------------------------------
(* Regular expressions: re.compile, re.escape, regex.search, for patterns  *)
(* made of letters, `.`, `(`, `)` and the backslashes re.escape adds.      *)

ReFail == [ok |-> FALSE, atoms |-> <<>>]

Literal(c) == [any |-> FALSE, ch |-> c]
AnyChar == [any |-> TRUE, ch |-> "."]

\* The parse of a pattern: its atoms in order, or a failure (re.error) for a
\* `)` without `(`, a `(` never closed, or a backslash at the end.
RECURSIVE ReParse(_, _, _)
ReParse(p, depth, atoms) ==
    IF p = <<>> THEN (IF depth = 0 THEN [ok |-> TRUE, atoms |-> atoms] ELSE ReFail)
    ELSE IF p[1] = "\\"
         THEN IF Len(p) < 2 THEN ReFail
              ELSE ReParse(Tail(Tail(p)), depth, Append(atoms, Literal(p[2])))
    ELSE IF p[1] = "(" THEN ReParse(Tail(p), depth + 1, atoms)
    ELSE IF p[1] = ")"
         THEN IF depth = 0 THEN ReFail ELSE ReParse(Tail(p), depth - 1, atoms)
    ELSE IF p[1] = "." THEN ReParse(Tail(p), depth, Append(atoms, AnyChar))
    ELSE ReParse(Tail(p), depth, Append(atoms, Literal(p[1])))

ReSpecial == {"(", ")", "[", "]", "{", "}", "?", "*", "+", "-", "|", "^",
              "$", "\\", ".", "&", "~", "#", " ", "\t", "\n", "\r"}

\* re.escape: a backslash before every special character.
RECURSIVE ReEscapeMut(_)
ReEscapeMut(p) ==
    IF p = <<>> THEN <<>>
    ELSE (IF p[1] \in ReSpecial \ {"."} THEN <<"\\", p[1]>> ELSE <<p[1]>>)
         \o ReEscapeMut(Tail(p))

RECURSIVE ReEscape(_)
ReEscape(p) ==
    IF p = <<>> THEN <<>>
    ELSE (IF p[1] \in ReSpecial THEN <<"\\", p[1]>> ELSE <<p[1]>>)
         \o ReEscape(Tail(p))

\* Lines 428..433: the pattern compiled, or its escaped form when it does
\* not compile; the flag is kept in both cases.
Compile(pattern, case_insensitive) ==
    [atoms |-> IF ReParse(pattern, 0, <<>>).ok
               THEN ReParse(pattern, 0, <<>>).atoms
               ELSE ReParse(ReEscape(pattern), 0, <<>>).atoms,
     ignorecase |-> case_insensitive]

AtomMatches(atom, c, ignorecase) ==
    \/ atom.any
    \/ IF ignorecase THEN LowerChar(atom.ch) = LowerChar(c) ELSE atom.ch = c

MatchAt(regex, line, i) ==
    /\ i + Len(regex.atoms) - 1 <= Len(line)
    /\ \A j \in 1..Len(regex.atoms) :
          AtomMatches(regex.atoms[j], line[i + j - 1], regex.ignorecase)

\* regex.search(line) is not None
Search(regex, line) == \E i \in 1..(Len(line) + 1) : MatchAt(regex, line, i)

\* regex.search(line).group(): the leftmost match
SearchGroup(regex, line) ==
    LET i == CHOOSE h \in 1..(Len(line) + 1) :
                 MatchAt(regex, line, h)
                 /\ \A g \in 1..(h - 1) : ~MatchAt(regex, line, g)
    IN SubSeq(line, i, i + Len(regex.atoms) - 1)

----------------------------------------------------------------------------
(* grep_repository_content, lines 398..464 *)

Max(a, b) == IF a >= b THEN a ELSE b
Min(a, b) == IF a <= b THEN a ELSE b

\* s[start:end] for 0 <= start and 0 <= end <= len(s)
PySlice(s, start, end) == SubSeq(s, start + 1, end)

BinaryExtensions ==
    { <<".", "j", "p", "g">>, <<".", "p", "n", "g">>, <<".", "g", "i", "f">>,
      <<".", "p", "d", "f">>, <<".", "z", "i", "p">>, <<".", "e", "x", "e">>,
      <<".", "b", "i", "n">>, <<".", "s", "o">> }

\* Lines 419..420
IsBinaryMut(file_path) ==
    \E ext \in BinaryExtensions : EndsWith(file_path, ext)
IsBinary(file_path) ==
    \E ext \in BinaryExtensions : EndsWith(Lower(file_path), ext)

\* Lines 409..425: the candidates, with the break at max_files. An empty
\* file_filter stands for None and for "": line 415 treats both as no filter.
RECURSIVE FilesToSearch(_, _, _, _)
FilesToSearch(items, acc, file_filter, max_files) ==
    IF items = <<>> THEN acc
    ELSE LET item == Head(items) IN
         IF /\ item.type = "blob"
            /\ ~(file_filter # <<>> /\ ~FnMatch(item.path, file_filter))
            /\ ~IsBinary(item.path)
         THEN LET appended == Append(acc, item) IN
              IF Len(appended) >= max_files THEN appended
              ELSE FilesToSearch(Tail(items), appended, file_filter, max_files)
         ELSE FilesToSearch(Tail(items), acc, file_filter, max_files)

\* Lines 453..456
ContextSliceMut(lines, line_num, context_lines) ==
    PySlice(lines, Max(0, line_num - context_lines),
                   Min(Len(lines), line_num + context_lines))
ContextSlice(lines, line_num, context_lines) ==
    PySlice(lines, Max(0, line_num - context_lines - 1),
                   Min(Len(lines), line_num + context_lines))

\* Lines 445..456. The dictionary has a "context" key only when
\* context_lines > 0: has_context tells.
MatchInfo(path, lines, line_num, regex, context_lines) ==
    [file |-> path,
     line_number |-> line_num,
     line |-> Strip(lines[line_num]),
     match |-> SearchGroup(regex, lines[line_num]),
     has_context |-> context_lines > 0,
     context |-> IF context_lines > 0
                 THEN ContextSlice(lines, line_num, context_lines)
                 ELSE <<>>]

\* Lines 443..458: the matches of the lines from line_num on.
RECURSIVE ScanLinesMut(_, _, _, _, _)
ScanLinesMut(path, lines, line_num, regex, context_lines) ==
    IF line_num > Len(lines) THEN <<>>
    ELSE ScanLinesMut(path, lines, line_num + 1, regex, context_lines)
         \o (IF Search(regex, lines[line_num])
             THEN <<MatchInfo(path, lines, line_num, regex, context_lines)>>
             ELSE <<>>)

RECURSIVE ScanLines(_, _, _, _, _)
ScanLines(path, lines, line_num, regex, context_lines) ==
    IF line_num > Len(lines) THEN <<>>
    ELSE (IF Search(regex, lines[line_num])
          THEN <<MatchInfo(path, lines, line_num, regex, context_lines)>>
          ELSE <<>>)
         \o ScanLines(path, lines, line_num + 1, regex, context_lines)

\* Lines 442..458 for one file.
ScanFile(path, content, regex, context_lines) ==
    ScanLines(path, Split(content, "\n"), 1, regex, context_lines)

\* Line 407: the tree listing is asked for.
GrepStart ==
    /\ spc = "idle"
    /\ call.op = "grep_repository_content"
    /\ calls' = Append(calls, TreeCall)
    /\ spc' = "tree"
    /\ UNCHANGED <<call, tree, files, commits, prev, served, files_to_search,
                   pos, matches, sresult, serror>>
    /\ UNCHANGED tvars
    /\ UNCHANGED cvars

\* Lines 407..435: the listing arrives; candidates and pattern are prepared.
GrepTreeReturns ==
    /\ spc = "tree"
    /\ call.op = "grep_repository_content"
    /\ files_to_search' =
           FilesToSearch(tree, <<>>, call.file_filter, call.max_files)
    /\ pos' = 1
    /\ spc' = "scan"
    /\ UNCHANGED <<call, tree, files, commits, prev, calls, served, matches,
                   sresult, serror>>
    /\ UNCHANGED tvars
    /\ UNCHANGED cvars

\* Line 407: _make_request raised; the exception leaves the operation.
GrepTreeRaises ==
    /\ spc = "tree"
    /\ call.op = "grep_repository_content"
    /\ serror' = [kind |-> "exhausted", endpoint |-> "/repository/tree",
                  attempts |-> 3]
    /\ spc' = "failed"
    /\ UNCHANGED <<call, tree, files, commits, prev, calls, served,
                   files_to_search, pos, matches, sresult>>
    /\ UNCHANGED tvars
    /\ UNCHANGED cvars

\* Lines 407..411: the host answered the listing with a value that is no
\* list; the loop over the tree is outside the try of line 437.
GrepTreeMalformed(shape) ==
    /\ spc = "tree"
    /\ call.op = "grep_repository_content"
    /\ serror' = [kind |-> TreeShapeError(shape),
                  endpoint |-> "/repository/tree", attempts |-> 0]
    /\ spc' = "failed"
    /\ UNCHANGED <<call, tree, files, commits, prev, calls, served,
                   files_to_search, pos, matches, sresult>>
    /\ UNCHANGED tvars
    /\ UNCHANGED cvars

\* Lines 436..439: the next candidate is fetched.
GrepFetchMut ==
    /\ spc = "scan"
    /\ pos <= Len(files_to_search)
    /\ calls' = Append(calls, FileCall(files_to_search[1].path))
    /\ spc' = "fetch"
    /\ UNCHANGED <<call, tree, files, commits, prev, served, files_to_search,
                   pos, matches, sresult, serror>>
    /\ UNCHANGED tvars
    /\ UNCHANGED cvars
GrepFetch ==
    /\ spc = "scan"
    /\ pos <= Len(files_to_search)
    /\ calls' = Append(calls, FileCall(files_to_search[pos].path))
    /\ spc' = "fetch"
    /\ UNCHANGED <<call, tree, files, commits, prev, served, files_to_search,
                   pos, matches, sresult, serror>>
    /\ UNCHANGED tvars
    /\ UNCHANGED cvars

\* Lines 439..458: get_file returned a dictionary; has_content tells whether
\* it holds "content" (an error body of the host does not, and line 440
\* then scans the empty string).
GrepFetchReturns(has_content) ==
    /\ spc = "fetch"
    /\ LET path == files_to_search[pos].path
           content == IF has_content THEN files[path] ELSE <<>>
       IN /\ served' = Append(served, [path |-> path, kind |-> "returned",
                                       content |-> content])
          /\ matches' = matches \o
                 ScanFile(path, content,
                          Compile(call.pattern, call.case_insensitive),
                          call.context_lines)
    /\ pos' = pos + 1
    /\ spc' = "scan"
    /\ UNCHANGED <<call, tree, files, commits, prev, calls, files_to_search,
                   sresult, serror>>
    /\ UNCHANGED tvars
    /\ UNCHANGED cvars

\* Lines 460..462: get_file raised (the request was exhausted, the content
\* was not base64 or not UTF-8, the answer was no dictionary): log and go on.
GrepFetchRaisesMut ==
    /\ spc = "fetch"
    /\ served' = Append(served, [path |-> files_to_search[pos].path,
                                 kind |-> "raised", content |-> <<>>])
    /\ sresult' = matches
    /\ spc' = "done"
    /\ UNCHANGED <<call, tree, files, commits, prev, calls, files_to_search,
                   pos, matches, serror>>
    /\ UNCHANGED tvars
    /\ UNCHANGED cvars
GrepFetchRaises ==
    /\ spc = "fetch"
    /\ served' = Append(served, [path |-> files_to_search[pos].path,
                                 kind |-> "raised", content |-> <<>>])
    /\ pos' = pos + 1
    /\ spc' = "scan"
    /\ UNCHANGED <<call, tree, files, commits, prev, calls, files_to_search,
                   matches, sresult, serror>>
    /\ UNCHANGED tvars
    /\ UNCHANGED cvars

\* Line 464
GrepReturn ==
    /\ spc = "scan"
    /\ pos > Len(files_to_search)
    /\ sresult' = matches
    /\ spc' = "done"
    /\ UNCHANGED <<call, tree, files, commits, prev, calls, served,
                   files_to_search, pos, matches, serror>>
    /\ UNCHANGED tvars
    /\ UNCHANGED cvars

NextGrep ==
    \/ GrepStart
    \/ GrepTreeReturns
    \/ GrepTreeRaises
    \/ \E shape \in Shapes : GrepTreeMalformed(shape)
    \/ GrepFetch
    \/ \E has_content \in BOOLEAN : GrepFetchReturns(has_content)
    \/ GrepFetchRaises
    \/ GrepReturn

----------------------------------------------------------------------------
(* The repositories and calls grep_repository_content is run on *)

notes_py == <<"n", "o", "t", "e", "s", ".", "p", "y">>
logo_png == <<"l", "o", "g", "o", ".", "p", "n", "g">>
LOGO_PNG == <<"L", "O", "G", "O", ".", "P", "N", "G">>

\* The entries a tree listing for grep is made of.
GrepEntries ==
    { Blob(notes_py), Blob(a_py), Blob(logo_png), Blob(LOGO_PNG),
      Blob(dir_c_txt), Dir(dir) }

\* "*.py"
StarPy == <<"*", ".", "p", "y">>

\* file_filter: none, "*.py"
GrepFilters == { <<>>, StarPy }

\* max_files: none, one, two, the default
GrepMaxFiles == {0, 1, 2, 50}

\* Every file of the repository holds the letter the pattern "a" looks for:
\* a file that is fetched shows in the matches; a.py holds it on its lines 1
\* and 3.
TreeFiles ==
    [p \in {notes_py, a_py, logo_png, LOGO_PNG, dir_c_txt} |->
        IF p = notes_py THEN <<"b", "\n", " ", "a", "b", " ">>
        ELSE IF p = dir_c_txt THEN <<"c", "a">>
        ELSE IF p = a_py THEN <<"a", "\n", "b", "\n", "a">>
        ELSE <<"a">>]

GrepCall(pattern, file_filter, case_insensitive, context_lines, max_files) ==
    [NoCall EXCEPT !.op = "grep_repository_content",
                   !.pattern = pattern,
                   !.file_filter = file_filter,
                   !.case_insensitive = case_insensitive,
                   !.context_lines = context_lines,
                   !.max_files = max_files]

\* Trees, filters and caps vary; the pattern is "a".
InitGrepTrees ==
    /\ tree \in Trees(GrepEntries, MaxTree)
    /\ files = TreeFiles
    /\ call \in { GrepCall(<<"a">>, f, FALSE, 0, m) :
                    f \in GrepFilters, m \in GrepMaxFiles }

\* Longest file, in lines, and widest context.
MaxLines == 5
MaxContext == 2

Digits == <<"1", "2", "3", "4", "5", "6", "7", "8", "9">>

RECURSIVE Join(_, _)
Join(lines, sep) ==
    IF lines = <<>> THEN <<>>
    ELSE IF Len(lines) = 1 THEN lines[1]
    ELSE lines[1] \o <<sep>> \o Join(Tail(lines), sep)

\* A file of n numbered lines; the lines in `hits` hold an "a", the others a
\* "b": line 2 is "a2" or "b2".
NumberedFile(n, hits) ==
    Join([i \in 1..n |-> <<IF i \in hits THEN "a" ELSE "b", Digits[i]>>], "\n")

\* One file of up to MaxLines lines, any of them matching; the context
\* width varies.
InitGrepContext ==
    /\ tree = <<Blob(notes_py)>>
    /\ files \in { [p \in {notes_py} |-> NumberedFile(n, hits)] :
                     n \in 0..MaxLines, hits \in SUBSET (1..MaxLines) }
    /\ call \in { GrepCall(<<"a">>, <<>>, FALSE, c, 50) : c \in 0..MaxContext }

\* Longest pattern.
MaxPattern == 2

PatternAlphabet == {"a", "A", ".", "(", ")"}

\* The lines "(a", "(A", " (. ", "a)b", ".)", "ab", ")("
PatternFile ==
    Join(<< <<"(", "a">>, <<"(", "A">>, <<" ", "(", ".", " ">>,
            <<"a", ")", "b">>, <<".", ")">>, <<"a", "b">>, <<")", "(">> >>, "\n")

\* One file; every pattern of up to MaxPattern characters, with and without
\* the case flag.
InitGrepPatterns ==
    /\ tree = <<Blob(notes_py)>>
    /\ files = [p \in {notes_py} |-> PatternFile]
    /\ call \in { GrepCall(p, <<>>, ci, 0, 50) :
                    p \in SeqsUpTo(PatternAlphabet, MaxPattern), ci \in BOOLEAN }

InitGrep ==
    /\ InitTransport
    /\ InitClient
    /\ InitGrepTrees \/ InitGrepContext \/ InitGrepPatterns
    /\ spc = "idle"
    /\ calls = <<>>
    /\ served = <<>>
    /\ files_to_search = <<>>
    /\ pos = 0
    /\ matches = <<>>
    /\ sresult = <<>>
    /\ serror = NoError
    /\ commits = <<>>
    /\ prev = NoPrev

SpecGrep == InitGrep /\ [][NextGrep]_vars

----------------------------------------------------------------------------
(* search_commits_enhanced, lines 466..500 *)

\* `sub in s` for two strings
StrIn(sub, s) ==
    \E off \in 0..(Len(s) - Len(sub)) : SubSeq(s, off + 1, off + Len(sub)) = sub

\* Lines 479..485: re.search(grep, message, re.IGNORECASE) is not None, and
\* when the pattern does not compile (re.error), the lower-cased pattern is
\* looked for in the lower-cased message. The branch taken when the regular
\* expression does not compile is the second parameter of the variant.
MessageMatchesMut(grep, message) ==
    IF ReParse(grep, 0, <<>>).ok
    THEN Search([atoms |-> ReParse(grep, 0, <<>>).atoms, ignorecase |-> TRUE],
                message)
    ELSE TRUE
MessageMatches(grep, message) ==
    IF ReParse(grep, 0, <<>>).ok
    THEN Search([atoms |-> ReParse(grep, 0, <<>>).atoms, ignorecase |-> TRUE],
                message)
    ELSE StrIn(Lower(grep), Lower(message))

\* Lines 489..491
AuthorMatches(author, commit) ==
    \/ StrIn(Lower(author), Lower(commit.author_name))
    \/ StrIn(Lower(author), Lower(commit.author_email))

\* Lines 476..496: the loop over the commits, with its two filters and its
\* break.
RECURSIVE FilteredCommitsMut(_, _, _, _, _)
FilteredCommitsMut(items, filtered_commits, grep, author, limit) ==
    IF items = <<>> THEN filtered_commits
    ELSE LET commit == Head(items) IN
         IF \/ grep # <<>> /\ ~MessageMatches(grep, commit.message)
            \/ author # <<>> /\ ~AuthorMatches(author, commit)
         THEN FilteredCommitsMut(Tail(items), filtered_commits, grep, author,
                                 limit)
         ELSE LET appended == Append(filtered_commits, commit) IN
              IF Len(appended) > limit THEN appended
              ELSE FilteredCommitsMut(Tail(items), appended, grep, author,
                                      limit)

RECURSIVE FilteredCommits(_, _, _, _, _)
FilteredCommits(items, filtered_commits, grep, author, limit) ==
    IF items = <<>> THEN filtered_commits
    ELSE LET commit == Head(items) IN
         IF \/ grep # <<>> /\ ~MessageMatches(grep, commit.message)
            \/ author # <<>> /\ ~AuthorMatches(author, commit)
         THEN FilteredCommits(Tail(items), filtered_commits, grep, author, limit)
         ELSE LET appended == Append(filtered_commits, commit) IN
              IF Len(appended) >= limit THEN appended
              ELSE FilteredCommits(Tail(items), appended, grep, author, limit)

\* Line 476: commits[:limit * 3]
CommitsWindowMut(listed, limit) == listed
CommitsWindow(listed, limit) ==
    PySlice(listed, 0, Min(Len(listed), limit * 3))

\* Lines 476..496: the number of commits the loop takes from `items` before
\* it ends, by the break or at the end of the items.
RECURSIVE Examined(_, _, _, _, _)
Examined(items, filtered_len, grep, author, limit) ==
    IF items = <<>> THEN 0
    ELSE LET commit == Head(items) IN
         IF \/ grep # <<>> /\ ~MessageMatches(grep, commit.message)
            \/ author # <<>> /\ ~AuthorMatches(author, commit)
         THEN 1 + Examined(Tail(items), filtered_len, grep, author, limit)
         ELSE IF filtered_len + 1 >= limit THEN 1
              ELSE 1 + Examined(Tail(items), filtered_len + 1, grep, author,
                                limit)

\* Lines 473..500 once list_commits has returned `listed`: the loop runs over
\* listed[:limit * 3]; file_path is a parameter that no line reads.
SearchCommitsEnhancedMut(listed, grep, author, file_path, limit) ==
    IF file_path # <<>> THEN <<>>
    ELSE FilteredCommits(CommitsWindow(listed, limit), <<>>, grep, author,
                         limit)
SearchCommitsEnhanced(listed, grep, author, file_path, limit) ==
    FilteredCommits(CommitsWindow(listed, limit), <<>>, grep, author, limit)

\* The host call of list_commits (lines 340..352): since and until go into
\* the query, the request is a GET without data.
CommitsCall(since, until) ==
    HostCall("GET", "None", "commits", <<>>, <<since, until>>)

\* Line 476, `commits[:limit * 3]`, and line 480, commit.get(...), on a value
\* that is no list of dictionaries: a dictionary cannot be sliced, a number
\* cannot be subscripted, the characters of a text have no get.
CommitsShapeError(shape) ==
    IF shape = "text" THEN "AttributeError" ELSE "TypeError"

\* Line 473: the commit list is asked for.
CommitsStart ==
    /\ spc = "idle"
    /\ call.op = "search_commits_enhanced"
    /\ calls' = Append(calls, CommitsCall(call.since, call.until))
    /\ spc' = "list"
    /\ UNCHANGED <<call, tree, files, commits, prev, served, files_to_search,
                   pos, matches, sresult, serror>>
    /\ UNCHANGED tvars
    /\ UNCHANGED cvars

\* Lines 473..500: the list arrives, is filtered and returned.
CommitsListReturns ==
    /\ spc = "list"
    /\ sresult' = SearchCommitsEnhanced(commits, call.grep, call.author,
                                        call.file_path, call.limit)
    /\ pos' = Examined(CommitsWindow(commits, call.limit), 0, call.grep,
                       call.author, call.limit)
    /\ spc' = "done"
    /\ UNCHANGED <<call, tree, files, commits, prev, calls, served,
                   files_to_search, matches, serror>>
    /\ UNCHANGED tvars
    /\ UNCHANGED cvars

\* Line 473: _make_request raised; the exception leaves the operation.
CommitsListRaises ==
    /\ spc = "list"
    /\ serror' = [kind |-> "exhausted", endpoint |-> "/repository/commits",
                  attempts |-> 3]
    /\ spc' = "failed"
    /\ UNCHANGED <<call, tree, files, commits, prev, calls, served,
                   files_to_search, pos, matches, sresult>>
    /\ UNCHANGED tvars
    /\ UNCHANGED cvars

\* Lines 473..480: the host answered with a value that is no list; the loop
\* raises and nothing catches it.
CommitsListMalformed(shape) ==
    /\ spc = "list"
    /\ serror' = [kind |-> CommitsShapeError(shape),
                  endpoint |-> "/repository/commits", attempts |-> 0]
    /\ spc' = "failed"
    /\ UNCHANGED <<call, tree, files, commits, prev, calls, served,
                   files_to_search, pos, matches, sresult>>
    /\ UNCHANGED tvars
    /\ UNCHANGED cvars

\* The tool is called once more (server.py, lines 468..477), with another
\* file_path and all else as before; what the first run issued and returned
\* is kept aside.
CommitsAgain(file_path) ==
    /\ spc = "done"
    /\ call.op = "search_commits_enhanced"
    /\ prev = NoPrev
    /\ file_path # call.file_path
    /\ prev' = [file_path |-> call.file_path, calls |-> calls,
                sresult |-> sresult]
    /\ call' = [call EXCEPT !.file_path = file_path]
    /\ calls' = <<>>
    /\ sresult' = <<>>
    /\ pos' = 0
    /\ spc' = "idle"
    /\ UNCHANGED <<tree, files, commits, served, files_to_search, matches,
                   serror>>
    /\ UNCHANGED tvars
    /\ UNCHANGED cvars

\* Longest commit list of the host.
MaxCommits == 4

Commit(id, message, author_name, author_email) ==
    [id |-> id, message |-> message, author_name |-> author_name,
     author_email |-> author_email]

\* "Fix" by Ann <ann@x>, "a(X" by Bob <bob@x>, "fax" by Cy <ANN2@x>,
\* "doc" by Bo <d@x>
CommitPool ==
    { Commit(1, <<"F", "i", "x">>, <<"A", "n", "n">>, <<"a", "n", "n", "@", "x">>),
      Commit(2, <<"a", "(", "X">>, <<"B", "o", "b">>, <<"b", "o", "b", "@", "x">>),
      Commit(3, <<"f", "a", "x">>, <<"C", "y">>, <<"A", "N", "N", "2", "@", "x">>),
      Commit(4, <<"d", "o", "c">>, <<"B", "o">>, <<"d", "@", "x">>) }

\* The commit lists of up to n commits: the host lists a commit once.
CommitLists(n) ==
    { l \in SeqsUpTo(CommitPool, n) :
        \A i \in 1..Len(l) : \A j \in 1..Len(l) : i # j => l[i].id # l[j].id }

\* grep: none, "fix", "f.x", "(x" (which does not compile)
CommitGreps == { <<>>, <<"f", "i", "x">>, <<"f", ".", "x">>, <<"(", "x">> }

\* author: none, "ann", "BO"
CommitAuthors == { <<>>, <<"a", "n", "n">>, <<"B", "O">> }

\* file_path: none, "a.py"
CommitFilePaths == { <<>>, a_py }

\* since: none, a date
CommitSince == { "", "2024-01-01T00:00:00Z" }

CommitLimits == {1, 2}

InitCommits ==
    /\ InitTransport
    /\ InitClient
    /\ call \in { [NoCall EXCEPT !.op = "search_commits_enhanced",
                                 !.grep = g, !.author = a, !.file_path = f,
                                 !.since = s, !.limit = n] :
                    g \in CommitGreps, a \in CommitAuthors,
                    f \in CommitFilePaths, s \in CommitSince,
                    n \in CommitLimits }
    /\ commits \in CommitLists(MaxCommits)
    /\ prev = NoPrev
    /\ tree = <<>>
    /\ files = <<>>
    /\ spc = "idle"
    /\ calls = <<>>
    /\ served = <<>>
    /\ files_to_search = <<>>
    /\ pos = 0
    /\ matches = <<>>
    /\ sresult = <<>>
    /\ serror = NoError

NextCommits ==
    \/ CommitsStart
    \/ CommitsListReturns
    \/ CommitsListRaises
    \/ \E shape \in Shapes : CommitsListMalformed(shape)
    \/ \E file_path \in CommitFilePaths : CommitsAgain(file_path)

SpecCommits == InitCommits /\ [][NextCommits]_vars

----------------------------------------------------------------------------
(* The three search operations together *)

InitSearch == InitFiles \/ InitGrep \/ InitCommits

NextSearch == NextFiles \/ NextGrep \/ NextCommits

SpecSearch == InitSearch /\ [][NextSearch]_vars

----------------------------------------------------------------------------
(* Two search invocations on one client, interleaved at their awaits      *)
(* (lines 384, 407, 439, 473). Between two awaits an invocation runs       *)
(* alone: asyncio switches coroutines only at an await.                    *)

Invocations == {1, 2}

\* The list object that `matches` names in invocation t: line 435 makes a new
\* list in every invocation.
MatchesListMut(t) == 1
MatchesList(t) == t

\* An invocation before its first await. `overlapped` records that a step of
\* the invocation ran while another invocation was waiting at an await.
NewTask(c) ==
    [call |-> c, pc |-> "idle", files_to_search |-> <<>>, pos |-> 0,
     result |-> <<>>, overlapped |-> FALSE]

Waiting(u) == tasks[u].pc \in {"tree", "fetch", "list"}

Overlaps(t) == \E u \in Invocations \ {t} : Waiting(u)

\* Lines 384, 407, 473: the invocation runs up to its first await.
PairStart(t) ==
    /\ tasks[t].pc = "idle"
    /\ tasks' = [tasks EXCEPT
                   ![t].pc = IF tasks[t].call.op = "search_commits_enhanced"
                             THEN "list" ELSE "tree",
                   ![t].overlapped = @ \/ Overlaps(t)]
    /\ UNCHANGED <<lists, client>>
    /\ UNCHANGED tvars
    /\ UNCHANGED svars

\* Lines 384..396 (search_files) and 407..439 (grep): the tree listing has
\* returned; search_files filters it and returns, grep prepares its
\* candidates and its list of matches and awaits the first file.
PairTreeReturns(t) ==
    /\ tasks[t].pc = "tree"
    /\ LET c == tasks[t].call IN
       IF c.op = "search_files"
       THEN /\ tasks' = [tasks EXCEPT
                           ![t].result = MatchingFiles(tree, <<>>, c.pattern,
                                                       c.max_results),
                           ![t].pc = "done",
                           ![t].overlapped = @ \/ Overlaps(t)]
            /\ lists' = lists
       ELSE LET candidates == FilesToSearch(tree, <<>>, c.file_filter,
                                            c.max_files)
            IN /\ tasks' = [tasks EXCEPT
                              ![t].files_to_search = candidates,
                              ![t].pos = 1,
                              ![t].pc = IF candidates = <<>> THEN "done"
                                        ELSE "fetch",
                              ![t].overlapped = @ \/ Overlaps(t)]
               /\ lists' = [lists EXCEPT ![MatchesList(t)] = <<>>]
    /\ UNCHANGED client
    /\ UNCHANGED tvars
    /\ UNCHANGED svars

\* Lines 439..464: a file has returned; its matches are appended and the
\* next file is awaited, or the list is returned after the last file.
PairFetchReturns(t) ==
    /\ tasks[t].pc = "fetch"
    /\ LET c == tasks[t].call
           path == tasks[t].files_to_search[tasks[t].pos].path
           grown == lists[MatchesList(t)] \o
                       ScanFile(path, files[path],
                                Compile(c.pattern, c.case_insensitive),
                                c.context_lines)
       IN /\ lists' = [lists EXCEPT ![MatchesList(t)] = grown]
          /\ IF tasks[t].pos = Len(tasks[t].files_to_search)
             THEN tasks' = [tasks EXCEPT ![t].result = grown,
                                         ![t].pc = "done",
                                         ![t].overlapped = @ \/ Overlaps(t)]
             ELSE tasks' = [tasks EXCEPT ![t].pos = @ + 1,
                                         ![t].overlapped = @ \/ Overlaps(t)]
    /\ UNCHANGED client
    /\ UNCHANGED tvars
    /\ UNCHANGED svars

\* Lines 473..500: the commit list has returned; it is filtered and returned.
PairListReturns(t) ==
    /\ tasks[t].pc = "list"
    /\ LET c == tasks[t].call IN
       tasks' = [tasks EXCEPT
                   ![t].result = SearchCommitsEnhanced(commits, c.grep,
                                     c.author, c.file_path, c.limit),
                   ![t].pc = "done",
                   ![t].overlapped = @ \/ Overlaps(t)]
    /\ UNCHANGED <<lists, client>>
    /\ UNCHANGED tvars
    /\ UNCHANGED svars

\* The calls that are interleaved: search_files("*.py"), grep "a" with and
\* without a filter and context, search_commits_enhanced(author "ann").
PairCalls ==
    { [NoCall EXCEPT !.op = "search_files", !.pattern = StarPy,
                     !.max_results = 100],
      GrepCall(<<"a">>, <<>>, FALSE, 0, 50),
      GrepCall(<<"a">>, StarPy, FALSE, 1, 50),
      [NoCall EXCEPT !.op = "search_commits_enhanced",
                     !.author = <<"a", "n", "n">>, !.limit = 2] }

PairEntries == { Blob(notes_py), Blob(a_py), Blob(dir_c_txt) }

InitPair ==
    /\ InitTransport
    /\ client = ClientConfig
    /\ tasks \in { [t \in Invocations |-> NewTask(IF t = 1 THEN c1 ELSE c2)] :
                     c1 \in PairCalls, c2 \in PairCalls }
    /\ lists = [t \in Invocations |-> <<>>]
    /\ tree \in Trees(PairEntries, MaxTree)
    /\ files = TreeFiles
    /\ commits \in { l \in CommitLists(MaxCommits) : Len(l) = 1 }
    /\ call = NoCall
    /\ prev = NoPrev
    /\ spc = "idle"
    /\ calls = <<>>
    /\ served = <<>>
    /\ files_to_search = <<>>
    /\ pos = 0
    /\ matches = <<>>
    /\ sresult = <<>>
    /\ serror = NoError

NextPair ==
    \E t \in Invocations :
        \/ PairStart(t)
        \/ PairTreeReturns(t)
        \/ PairFetchReturns(t)
        \/ PairListReturns(t)

SpecPair == InitPair /\ [][NextPair]_vars

----------------------------------------------------------------------------
(* Claims about _make_request, checked under Spec *)

\* The attempts of the call that succeeded: curl exited with status 0 and
\* printed a body.
SucceededAt(i) == log[i].kind = "done" /\ log[i].rc = 0 /\ log[i].text # <<>>

\* The value a successful attempt stands for: its body parsed, or as text.
ValueAt(i) ==
    IF JsonValid(log[i].text) THEN JsonLoads(log[i].text)
    ELSE [tag |-> "text", v |-> log[i].text]

\* C1: when the first k attempts of a call fail and attempt k+1 succeeds
\* (k < retries), the call has returned the result of attempt k+1 and k+1 is
\* the number of attempts made: a successful attempt is always the last one.
C1_ReturnsFirstSuccess ==
    /\ \A i \in 1..Len(log) :
          SucceededAt(i) =>
              /\ i = Len(log)
              /\ i <= req.retries
              /\ pc = "returned"
              /\ result = ValueAt(i)
              /\ raised = NoError
    /\ pc = "returned" => Len(log) >= 1 /\ SucceededAt(Len(log))

\* C1 witness: two failed attempts, then a success on the third and last.
C1_Witness ==
    /\ pc = "returned"
    /\ req.retries = 3
    /\ Len(log) = 3
    /\ ~SucceededAt(1) /\ ~SucceededAt(2) /\ SucceededAt(3)
    /\ result = [tag |-> "text", v |-> <<120>>]

\* C2: a call never makes more than `retries` attempts; once all `retries`
\* attempts have failed the only step left is the raise of line 118, and the
\* error raised names the endpoint and the attempt count.
C2_ExhaustionRaises ==
    /\ Len(log) <= req.retries
    /\ (pc # "idle" /\ Len(log) = req.retries
          /\ \A i \in 1..Len(log) : ~SucceededAt(i))
        => \/ /\ pc = "loop"
              /\ ENABLED Exhausted
              /\ ~ENABLED (\E o1 \in HostOutcomes :
                              \E o2 \in SecondOutcomes(o1) :
                                  AttemptOk(o1, o2) \/ AttemptFail(o1, o2))
           \/ /\ pc = "raised"
              /\ raised = [kind |-> "exhausted", endpoint |-> req.endpoint,
                           attempts |-> req.retries]
    /\ pc = "raised" =>
          /\ Len(log) = req.retries
          /\ \A i \in 1..Len(log) : ~SucceededAt(i)
          /\ result = NoResult
          /\ raised = [kind |-> "exhausted", endpoint |-> req.endpoint,
                       attempts |-> req.retries]

\* C2 witness: three attempts, a timeout, a non-zero exit and an error, then
\* the raise.
C2_Witness ==
    /\ pc = "raised"
    /\ req.retries = 3
    /\ Len(log) = 3
    /\ log[1].kind = "timeout"
    /\ log[2].kind = "done" /\ log[2].rc # 0
    /\ log[3].kind = "error"
    /\ raised.endpoint = "/repository/tree"

\* The execution printed a body and exited with status 0.
BodyOk(o) == o.kind = "exit" /\ o.rc = 0 /\ o.out # <<>>

\* The bytes the text of the latest attempt was decoded from.
LastBody ==
    IF last_run.second = NoRun THEN last_run.first.out ELSE last_run.second.out

C13_ParsedOrVerbatim ==
    /\ pc = "returned" =>
          LET text == log[Len(log)].text
          IN /\ JsonValid(text) => result = JsonLoads(text)
             /\ ~JsonValid(text) => result = [tag |-> "text", v |-> text]
    /\ \A i \in 1..Len(log) :
          (SucceededAt(i) /\ ~JsonValid(log[i].text)) =>
              /\ i = Len(log)
              /\ pc = "returned"
              /\ result.tag = "text"
              /\ raised = NoError

\* C13 witness: the first of three allowed attempts printed "x", which is no
\* JSON: the call returned "x" and made no other attempt.
C13_Witness ==
    /\ pc = "returned"
    /\ req.retries = 3
    /\ Len(log) = 1
    /\ runs = 1
    /\ log[1].text = <<120>>
    /\ result = [tag |-> "text", v |-> <<120>>]

\* C20: every attempt whose execution exited with status 0 is the last
\* attempt of the call, and the call returned, whatever the body.
C20_ExitZeroEndsCall ==
    \A i \in 1..Len(log) :
        (log[i].kind = "done" /\ log[i].rc = 0) =>
            /\ i = Len(log)
            /\ pc = "returned"

\* C21: every attempt executes the command once: the executions of a call
\* are as many as its attempts, and never more than `retries`.
C21_OneExecutionPerAttempt ==
    /\ runs = Len(log)
    /\ runs <= req.retries

\* C22: one wait separates a failed attempt from the next attempt and no
\* wait follows a successful attempt or the last failed one: the waits made
\* are one fewer than the attempts begun, a call that returned on attempt n
\* waited n - 1 times, and a call that raised after r >= 1 attempts waited
\* r - 1 times.
C22_OneWaitBetweenAttempts ==
    /\ pc = "loop" /\ attempt <= req.retries =>
          sleeps = Len(log) /\ attempt = Len(log) + 1
    /\ pc = "sleep" =>
          /\ sleeps = Len(log) - 1
          /\ Len(log) < req.retries
          /\ ~SucceededAt(Len(log))
    /\ pc = "returned" => sleeps = Len(log) - 1
    /\ (pc = "loop" /\ attempt > req.retries) \/ pc = "raised" =>
          /\ Len(log) = req.retries
          /\ sleeps = IF req.retries = 0 THEN 0 ELSE req.retries - 1

\* C22 witness: three attempts failed and the call raised after two waits.
C22_Witness ==
    /\ pc = "raised"
    /\ req.retries = 3
    /\ Len(log) = 3
    /\ sleeps = 2

----------------------------------------------------------------------------
(* Claims about search_files, checked under SpecFiles *)

\* The reference matcher of the claims: a pattern and a path are compared
\* segment by segment; `**` stands for any number of segments, `*` and `?`
\* stay inside one segment.
RECURSIVE GlobSegMatch(_, _)
GlobSegMatch(seg, pat) ==
    IF pat = <<>> THEN seg = <<>>
    ELSE IF pat[1] = "*"
         THEN \/ GlobSegMatch(seg, Tail(pat))
              \/ seg # <<>> /\ GlobSegMatch(Tail(seg), pat)
    ELSE IF pat[1] = "?"
         THEN seg # <<>> /\ GlobSegMatch(Tail(seg), Tail(pat))
    ELSE seg # <<>> /\ seg[1] = pat[1] /\ GlobSegMatch(Tail(seg), Tail(pat))

RECURSIVE GlobSegsMatch(_, _)
GlobSegsMatch(segs, pats) ==
    IF pats = <<>> THEN segs = <<>>
    ELSE IF pats[1] = <<"*", "*">>
         THEN \/ GlobSegsMatch(segs, Tail(pats))
              \/ segs # <<>> /\ GlobSegsMatch(Tail(segs), pats)
    ELSE /\ segs # <<>>
         /\ GlobSegMatch(segs[1], pats[1])
         /\ GlobSegsMatch(Tail(segs), Tail(pats))

GlobMatch(path, pat) == GlobSegsMatch(Split(path, "/"), Split(pat, "/"))

IsGlobFile(e) == e.type = "blob" /\ GlobMatch(e.path, call.pattern)

IsMatchingFile(e) == e.type = "blob" /\ FnMatch(e.path, call.pattern)

RECURSIVE IsSubsequence(_, _)
IsSubsequence(s, t) ==
    IF s = <<>> THEN TRUE
    ELSE IF t = <<>> THEN FALSE
    ELSE IF s[1] = t[1] THEN IsSubsequence(Tail(s), Tail(t))
    ELSE IsSubsequence(s, Tail(t))

FirstN(s, n) == SubSeq(s, 1, IF n < Len(s) THEN n ELSE Len(s))

FilesDone == spc = "done" /\ call.op = "search_files"

\* C3: search_files("**/*.py", max_results 100) over the tree a.py, dir/b.py,
\* dir/c.txt returns exactly a.py and dir/b.py.
C3_GlobExample ==
    ( /\ FilesDone
      /\ call.pattern = <<"*", "*", "/", "*", ".", "p", "y">>
      /\ call.max_results = 100
      /\ tree = <<Blob(a_py), Blob(dir_b_py), Blob(dir_c_txt)>> )
    => sresult = <<Blob(a_py), Blob(dir_b_py)>>

\* C4: the files search_files returns (the cap not reached) are the File
\* entries of the tree that the segment-aware glob matcher accepts: `*`
\* never matches a '/', `**` matches across segments.
C4_StandardGlob ==
    (FilesDone /\ call.max_results = 100)
    => sresult = SelectSeq(tree, IsGlobFile)

\* C5: the result of search_files is a subsequence of the tree listing, in
\* the host's order, of entries of type blob whose path the pattern matches.
C5_OrderedFileSubsequence ==
    FilesDone =>
        /\ IsSubsequence(sresult, tree)
        /\ \A i \in 1..Len(sresult) : IsMatchingFile(sresult[i])

\* C5 witness: a listing that is not in lexical order and holds a directory.
C5_Witness ==
    /\ FilesDone
    /\ call.pattern = <<"*", ".", "p", "y">>
    /\ tree = <<Blob(dir_b_py), Dir(dir), Blob(a_py)>>
    /\ sresult = <<Blob(dir_b_py), Blob(a_py)>>

\* C6: for every max_results >= 0, search_files returns at most max_results
\* entries, the first max_results matching File entries of the tree.
C6_CappedPrefix ==
    FilesDone =>
        /\ Len(sresult) <= call.max_results
        /\ sresult = FirstN(SelectSeq(tree, IsMatchingFile), call.max_results)

----------------------------------------------------------------------------
(* Claims about grep_repository_content, checked under SpecGrep *)

GrepDone == spc = "done" /\ call.op = "grep_repository_content"

RECURSIVE Concat(_)
Concat(ss) == IF ss = <<>> THEN <<>> ELSE Head(ss) \o Concat(Tail(ss))

\* The content the host gave for a file that was scanned.
ServedContent(path) ==
    LET i == CHOOSE j \in 1..Len(served) : served[j].path = path
    IN served[i].content

\* C7: with context_lines = c > 0, the context of a match on line n of a file
\* of L lines is the lines max(1, n-c) .. min(L, n+c) of the file, in order;
\* with c = 0 no context is attached.
C7_ContextWindow ==
    GrepDone =>
        \A i \in 1..Len(sresult) :
            LET m == sresult[i]
                lines == Split(ServedContent(m.file), "\n")
                n == m.line_number
                c == call.context_lines
            IN /\ n >= 1 /\ n <= Len(lines)
               /\ c > 0 => /\ m.has_context
                           /\ m.context = SubSeq(lines, Max(1, n - c),
                                                 Min(Len(lines), n + c))
               /\ c = 0 => ~m.has_context /\ m.context = <<>>

\* C7 witness: five lines, matches on lines 1, 3 and 5, one line of context:
\* lines 1..2, 2..4 and 4..5.
C7_Witness ==
    /\ GrepDone
    /\ call.context_lines = 1
    /\ files = [p \in {notes_py} |-> NumberedFile(5, {1, 3, 5})]
    /\ Len(sresult) = 3
    /\ sresult[1].context = << <<"a", "1">>, <<"b", "2">> >>
    /\ sresult[2].line_number = 3
    /\ sresult[2].context = << <<"b", "2">>, <<"a", "3">>, <<"b", "4">> >>
    /\ sresult[3].context = << <<"b", "4">>, <<"a", "5">> >>

\* What the answer to one fetch adds to the matches.
MatchesOfServed(s) ==
    IF s.kind = "raised" THEN <<>>
    ELSE ScanFile(s.path, s.content,
                  Compile(call.pattern, call.case_insensitive),
                  call.context_lines)

\* C8: a failed fetch never ends the operation: only the tree listing can
\* make it fail; when it returns, every candidate has been fetched, in
\* order, and the matches are those of the candidates whose fetch succeeded.
C8_FetchFailuresSkipped ==
    /\ spc = "failed" => served = <<>> /\ calls = <<TreeCall>>
    /\ GrepDone =>
          /\ calls = <<TreeCall>> \o
                 [i \in 1..Len(files_to_search) |->
                      FileCall(files_to_search[i].path)]
          /\ Len(served) = Len(files_to_search)
          /\ \A i \in 1..Len(served) : served[i].path = files_to_search[i].path
          /\ sresult = Concat([i \in 1..Len(served) |-> MatchesOfServed(served[i])])

\* C8 witness: of three fetches the first and the last failed; the matches
\* are those of the second file.
C8_Witness ==
    /\ GrepDone
    /\ Len(served) = 3
    /\ served[1].kind = "raised"
    /\ served[2].kind = "returned"
    /\ served[3].kind = "raised"
    /\ sresult # <<>>
    /\ \A i \in 1..Len(sresult) : sresult[i].file = served[2].path

Fold(c, ignorecase) == IF ignorecase THEN LowerChar(c) ELSE c

\* `line` holds `pattern` as a substring, letter case folded when asked.
Contains(line, pattern, ignorecase) ==
    \E off \in 0..(Len(line) - Len(pattern)) :
        \A j \in 1..Len(pattern) :
            Fold(line[off + j], ignorecase) = Fold(pattern[j], ignorecase)

RECURSIVE LiteralHits(_, _, _)
LiteralHits(path, lines, n) ==
    IF n > Len(lines) THEN <<>>
    ELSE (IF Contains(lines[n], call.pattern, call.case_insensitive)
          THEN << <<path, n>> >> ELSE <<>>)
         \o LiteralHits(path, lines, n + 1)

LiteralHitsOfServed(s) ==
    IF s.kind = "raised" THEN <<>>
    ELSE LiteralHits(s.path, Split(s.content, "\n"), 1)

NotCompiling(pattern) == ~ReParse(pattern, 0, <<>>).ok

\* C9: with a pattern that does not compile, the operation fails only when
\* the tree listing does, and the lines reported are the lines that hold the
\* pattern as a literal substring (letter case folded with
\* case_insensitive), each with the text found.
C9_LiteralFallback ==
    NotCompiling(call.pattern) =>
        /\ spc = "failed" => served = <<>> /\ calls = <<TreeCall>>
        /\ GrepDone =>
              /\ [i \in 1..Len(sresult) |->
                      <<sresult[i].file, sresult[i].line_number>>]
                    = Concat([i \in 1..Len(served) |->
                                  LiteralHitsOfServed(served[i])])
              /\ \A i \in 1..Len(sresult) :
                    /\ Len(sresult[i].match) = Len(call.pattern)
                    /\ Contains(sresult[i].match, call.pattern,
                                call.case_insensitive)

\* C9 witness: "(." finds only the line " (. ", not "(a".
C9_Witness ==
    /\ GrepDone
    /\ call.pattern = <<"(", ".">>
    /\ call.case_insensitive
    /\ Len(sresult) = 1
    /\ sresult[1].line_number = 3
    /\ sresult[1].line = <<"(", ".">>
    /\ sresult[1].match = <<"(", ".">>

Denylist ==
    { <<".", "j", "p", "g">>, <<".", "p", "n", "g">>, <<".", "g", "i", "f">>,
      <<".", "p", "d", "f">>, <<".", "z", "i", "p">>, <<".", "e", "x", "e">>,
      <<".", "b", "i", "n">>, <<".", "s", "o">> }

Denylisted(path) == \E ext \in Denylist : EndsWith(Lower(path), ext)

\* C10: every file fetch is for the path of a blob entry of the tree that
\* does not end, case folded, with a denylisted extension, and that the
\* file filter, when one is given, matches.
C10_NoBinaryFetch ==
    \A i \in 1..Len(calls) :
        calls[i].what = "file" =>
            /\ calls[i].method = "GET"
            /\ ~Denylisted(calls[i].path)
            /\ \E j \in 1..Len(tree) : tree[j] = Blob(calls[i].path)
            /\ call.file_filter # <<>> => FnMatch(calls[i].path, call.file_filter)

\* C10 witness: logo.png, notes.py and LOGO.PNG without a file filter: only
\* notes.py was fetched.
C10_Witness ==
    /\ GrepDone
    /\ call.file_filter = <<>>
    /\ tree = <<Blob(logo_png), Blob(notes_py), Blob(LOGO_PNG)>>
    /\ calls = <<TreeCall, FileCall(notes_py)>>

\* The position of a file in the scan order.
ScanIndex(path) ==
    CHOOSE k \in 1..Len(files_to_search) : files_to_search[k].path = path

\* C16: the matches are in file-then-line order: the files follow the scan
\* order, so that the matches of one file are contiguous; inside a file the
\* line numbers increase strictly; a line number is at least 1 and at most
\* the number of lines of the file.
C16_FileThenLineOrder ==
    GrepDone =>
        /\ \A i \in 1..Len(sresult) :
              /\ \E k \in 1..Len(files_to_search) :
                    files_to_search[k].path = sresult[i].file
              /\ sresult[i].line_number >= 1
              /\ sresult[i].line_number
                    <= Len(Split(ServedContent(sresult[i].file), "\n"))
        /\ \A i \in 1..Len(sresult) : \A j \in (i + 1)..Len(sresult) :
              /\ ScanIndex(sresult[i].file) <= ScanIndex(sresult[j].file)
              /\ sresult[i].file = sresult[j].file =>
                    sresult[i].line_number < sresult[j].line_number

\* C16 witness: notes.py matches on its line 2, a.py on its lines 1 and 3.
C16_Witness ==
    /\ GrepDone
    /\ tree = <<Blob(notes_py), Blob(a_py)>>
    /\ [i \in 1..Len(sresult) |-> <<sresult[i].file, sresult[i].line_number>>]
          = << <<notes_py, 2>>, <<a_py, 1>>, <<a_py, 3>> >>

\* A tree entry grep may fetch: a blob that the file filter, when there is
\* one, matches and whose extension is not denylisted.
IsEligible(e) ==
    /\ e.type = "blob"
    /\ call.file_filter # <<>> => FnMatch(e.path, call.file_filter)
    /\ ~Denylisted(e.path)

IsFileCall(c) == c.what = "file"

\* C18: for every max_files >= 0, grep fetches at most max_files files, and
\* they are the first max_files eligible entries of the tree, in host order.
C18_CappedFetches ==
    GrepDone =>
        /\ Len(SelectSeq(calls, IsFileCall)) <= call.max_files
        /\ SelectSeq(calls, IsFileCall)
              = [i \in 1..Len(FirstN(SelectSeq(tree, IsEligible), call.max_files))
                   |-> FileCall(FirstN(SelectSeq(tree, IsEligible),
                                       call.max_files)[i].path)]

\* The answers the host calls of the operation have had so far.
Answered == (IF spc \in {"idle", "tree"} THEN 0 ELSE 1) + Len(served)

\* C24: the host calls of grep are sequential: at most one call is without
\* its answer; the first call is the tree listing and no file is fetched
\* before it has returned; when it fails the operation fails with that one
\* call made; the file fetches follow the candidates in order, each file
\* once.
C24_SequentialCalls ==
    call.op = "grep_repository_content" =>
        /\ Len(calls) - Answered \in {0, 1}
        /\ Len(calls) - Answered = 1 <=> spc \in {"tree", "fetch"}
        /\ Len(calls) >= 1 => calls[1] = TreeCall
        /\ spc \in {"idle", "tree", "failed"} => Len(calls) <= 1
        /\ spc = "failed" => calls = <<TreeCall>> /\ served = <<>>
        /\ \A i \in 2..Len(calls) :
              /\ i - 1 <= Len(files_to_search)
              /\ calls[i] = FileCall(files_to_search[i - 1].path)
        /\ \A i \in 2..Len(calls) : \A j \in 2..Len(calls) :
              i # j => calls[i].path # calls[j].path

\* C24 witness: the third of three fetches is without its answer; the
\* second fetch had failed.
C24_Witness ==
    /\ call.op = "grep_repository_content"
    /\ spc = "fetch"
    /\ Len(calls) = 4
    /\ Len(served) = 2
    /\ served[2].kind = "raised"
    /\ calls[4] = FileCall(files_to_search[3].path)

----------------------------------------------------------------------------
(* Claims about search_commits_enhanced, checked under SpecCommits *)

CommitsDone == spc = "done" /\ call.op = "search_commits_enhanced"

\* The commit passes the filters of the call: its message is matched by the
\* regular expression, letter case ignored, or holds the pattern as a
\* substring, letter case ignored, when the pattern does not compile; the
\* author string occurs, letter case ignored, in the name or the email.
CommitSatisfies(c) ==
    /\ call.grep # <<>> =>
          IF NotCompiling(call.grep)
          THEN Contains(c.message, call.grep, TRUE)
          ELSE \E i \in 1..(Len(c.message) + 1) :
                   MatchAt(Compile(call.grep, TRUE), c.message, i)
    /\ call.author # <<>> =>
          \/ Contains(c.author_name, call.author, TRUE)
          \/ Contains(c.author_email, call.author, TRUE)

Ids(l) == [i \in 1..Len(l) |-> l[i].id]

\* C11 as stated: the commits returned are the first `limit` commits of the
\* host's list that satisfy the filters, in host order.
C11_FirstLimitOfList ==
    CommitsDone =>
        sresult = FirstN(SelectSeq(commits, CommitSatisfies), call.limit)

\* C11, amended: the commits returned are the first `limit` commits among the
\* first 3 * limit commits of the host's list that satisfy the filters, in
\* host order.
C11_FirstLimitOfWindow ==
    CommitsDone =>
        sresult = FirstN(SelectSeq(FirstN(commits, 3 * call.limit),
                                   CommitSatisfies),
                         call.limit)

\* C11 witness: limit 1 and author "ann" over the commits 4, 2, 1, 3: commit
\* 1 is returned, commit 3, which matches too, is not.
C11_Witness ==
    /\ CommitsDone
    /\ call.limit = 1
    /\ call.grep = <<>>
    /\ call.author = <<"a", "n", "n">>
    /\ Ids(commits) = <<4, 2, 1, 3>>
    /\ Ids(sresult) = <<1>>

\* C17: every commit returned satisfies every filter that was given.
C17_ReturnedSatisfyFilters ==
    CommitsDone => \A i \in 1..Len(sresult) : CommitSatisfies(sresult[i])

\* C17 witness: grep "(x", which does not compile, and author "BO" over the
\* commits 4, 1, 2: only commit 2 ("a(X" by Bob) is returned.
C17_Witness ==
    /\ CommitsDone
    /\ call.grep = <<"(", "x">>
    /\ call.author = <<"B", "O">>
    /\ Ids(commits) = <<4, 1, 2>>
    /\ Ids(sresult) = <<2>>

\* C19: a second run of the operation that differs from the first in
\* file_path alone issues the same host call and, when it returns, returns
\* what the first returned.
C19_FilePathNeverApplied ==
    (call.op = "search_commits_enhanced" /\ prev # NoPrev) =>
        /\ prev.file_path # call.file_path
        /\ spc \in {"list", "done", "failed"} => calls = prev.calls
        /\ spc = "done" => sresult = prev.sresult

\* C19 witness: the first run had no file_path, the second has "a.py"; both
\* returned the same two commits.
C19_Witness ==
    /\ CommitsDone
    /\ prev # NoPrev
    /\ prev.file_path = <<>>
    /\ call.file_path = a_py
    /\ Len(sresult) = 2
    /\ prev.sresult = sresult

\* C23: the loop takes commits only from the first 3 * limit of the host's
\* list, and no commit after the one that brought the result to `limit`:
\* the result holds at most `limit` commits, all of them among the commits
\* taken; when it holds `limit`, the last commit taken is its last one, and
\* when it holds fewer, the whole window was taken.
C23_WindowAndEarlyStop ==
    CommitsDone =>
        /\ pos <= Len(commits) /\ pos <= 3 * call.limit
        /\ Len(sresult) <= call.limit
        /\ sresult = SelectSeq(FirstN(commits, pos), CommitSatisfies)
        /\ Len(sresult) = call.limit => commits[pos] = sresult[call.limit]
        /\ Len(sresult) < call.limit =>
              pos = Min(Len(commits), 3 * call.limit)

\* C23 witness: limit 1 and grep "(x" over the commits 4, 1, 3, 2: commit 2,
\* the only one that matches, lies past the window of three; the loop took
\* three commits and nothing is returned.
C23_Witness ==
    /\ CommitsDone
    /\ call.limit = 1
    /\ call.grep = <<"(", "x">>
    /\ call.author = <<>>
    /\ Ids(commits) = <<4, 1, 3, 2>>
    /\ pos = 3
    /\ sresult = <<>>

----------------------------------------------------------------------------
(* Claims about the three search operations, checked under SpecSearch *)

\* C14: a search operation that fails has failed with the exhaustion error
\* of one of its host calls.
C14_OnlyExhaustionSurfaces ==
    spc = "failed" => serror.kind = "exhausted"

\* C15: every host call a search operation issues is a GET without data.
C15_SearchCallsAreGet ==
    /\ \A i \in 1..Len(calls) :
          calls[i].method = "GET" /\ calls[i].data = "None"
    /\ \A i \in 1..Len(prev.calls) :
          prev.calls[i].method = "GET" /\ prev.calls[i].data = "None"

\* C15 witness: grep has listed the tree and fetched two files.
C15_Witness ==
    /\ GrepDone
    /\ Len(calls) = 3
    /\ calls[1].what = "tree"
    /\ calls[2].what = "file"
    /\ calls[3].what = "file"

----------------------------------------------------------------------------
(* Claims about interleaved invocations, checked under SpecPair *)

\* What an invocation returns when it runs alone against the host.
Alone(c) ==
    IF c.op = "search_files"
    THEN SelectSeq(tree, LAMBDA e : e.type = "blob" /\ FnMatch(e.path, c.pattern))
    ELSE IF c.op = "grep_repository_content"
    THEN LET candidates == FilesToSearch(tree, <<>>, c.file_filter, c.max_files)
         IN Concat([i \in 1..Len(candidates) |->
                       ScanFile(candidates[i].path, files[candidates[i].path],
                                Compile(c.pattern, c.case_insensitive),
                                c.context_lines)])
    ELSE SearchCommitsEnhanced(commits, c.grep, c.author, c.file_path, c.limit)

\* C25: however two invocations are interleaved, each returns what it
\* returns when run alone, and the fields of the client are the ones it was
\* constructed with.
C25_IndependentInvocations ==
    /\ client = ClientConfig
    /\ \A t \in DOMAIN tasks :
          tasks[t].pc = "done" => tasks[t].result = Alone(tasks[t].call)

\* C25 witness: two greps over three files each ran steps while the other
\* was waiting, and both returned the four matches.
C25_Witness ==
    /\ \A t \in Invocations :
          /\ tasks[t].call = GrepCall(<<"a">>, <<>>, FALSE, 0, 50)
          /\ tasks[t].pc = "done"
          /\ tasks[t].overlapped
          /\ Len(tasks[t].result) = 4
    /\ Len(tree) = 3

====
